---------------------------- MODULE Spec2Model ----------------------------
(***************************************************************************)
(* Model of btowntickets/utils.py: the Loader strategy (CSVLoader,         *)
(* ParquetLoader), the LoadProcess orchestrator and profile_nulls.         *)
(*                                                                         *)
(* A DataFrame is a record [columns, dtypes, data]: columns is the         *)
(* sequence of column labels, dtypes the sequence of their types, data the *)
(* sequence of rows (each a sequence of cells, one per column).            *)
(* A cell is a record [k, n, s]: k is its kind, n its numeric payload (in  *)
(* tenths, so 10.0 is 100 and 1.5 is 15), s its text payload.              *)
(***************************************************************************)
EXTENDS Integers, Sequences, FiniteSets, TLC

VARIABLES
    fs,             \* the file system: path -> file (or NoFile)
    loaders,        \* loader instance -> [kind, file_path]  (Loader.__init__)
    data_loader,    \* LoadProcess.data_loader: the loader instance it wraps
    load_calls,     \* loader instance -> number of load() calls made on it
    run_calls,      \* number of LoadProcess.run() calls made
    run_result,     \* outcome of the last run(): NoResult, a table or an error
    last_load,      \* outcome of the load() the last run() delegated to
    df,             \* the DataFrame handed to profile_nulls
    null_profile,   \* the report of the last profile_nulls call
    prev_profile,   \* the report of the call before that
    profile_calls   \* number of profile_nulls calls made

vars == <<fs, loaders, data_loader, load_calls, run_calls, run_result,
          last_load, df, null_profile, prev_profile, profile_calls>>

loadVars == <<fs, loaders, data_loader, load_calls, run_calls, run_result,
              last_load>>

profileVars == <<df, null_profile, prev_profile, profile_calls>>

-----------------------------------------------------------------------------
(* Bounds of the model *)

\* Columns of a table handed to profile_nulls, and of a columnar-binary file.
MaxCols == 2

\* Rows of a table handed to profile_nulls.
MaxRows == 3

\* Rows of a columnar-binary file.
MaxPqRows == 2

\* Data rows of a delimited-text file.
MaxCsvRows == 3

\* Columns of a delimited-text file beyond the ones the loader names.
MaxExtra == 1

\* Calls of run(), and of profile_nulls, in one behaviour.
MaxCalls == 2

-----------------------------------------------------------------------------
(* Cells *)

Cell(kind, num, text) == [k |-> kind, n |-> num, s |-> text]

\* pd.NA / NaN / None / NaT: the values DataFrame.isna() reports as missing.
Null == Cell("null", 0, "")

FloatCell(tenths) == Cell("float", tenths, "")

IntCell(i) == Cell("int", i, "")

StrCell(text) == Cell("str", 0, text)

DateCell(text) == Cell("datetime", 0, text)

\* Element-wise test of DataFrame.isna(): an empty string is not missing.
isna(cell) == cell.k = "null"

-----------------------------------------------------------------------------
(* Floating-point division of a column of counts by a Python int, as       *)
(* pandas does it: division by zero does not raise, 0/0 is NaN and n/0 is  *)
(* inf; otherwise the quotient, kept as a reduced fraction.                *)

RECURSIVE Gcd(_, _)
Gcd(a, b) == IF b = 0 THEN a ELSE Gcd(b, a % b)

NaN == [k |-> "nan", num |-> 0, den |-> 0]

Inf == [k |-> "inf", num |-> 1, den |-> 0]

Quotient(a, b) == [k |-> "num", num |-> a \div Gcd(a, b), den |-> b \div Gcd(a, b)]

TrueDiv(a, b) ==
    IF b = 0
    THEN IF a = 0 THEN NaN ELSE Inf
    ELSE Quotient(a, b)

-----------------------------------------------------------------------------
(* profile_nulls *)

\* len(df): the number of rows.
len(frame) == Len(frame.data)

NumCols(frame) == Len(frame.columns)

RECURSIVE SumTrue(_)
SumTrue(bools) ==
    IF bools = <<>> THEN 0
    ELSE (IF Head(bools) THEN 1 ELSE 0) + SumTrue(Tail(bools))

\* df.isna().sum(axis=0): per column label, the number of missing cells.
IsnaSum(frame) ==
    [c \in 1..NumCols(frame) |->
        [index |-> frame.columns[c],
         value |-> SumTrue([r \in 1..len(frame) |-> isna(frame.data[r][c])])]]

\* .to_frame().reset_index().rename(columns={"index": "Column", 0: "Null Count"})
NullCountFrame(frame) ==
    [c \in 1..NumCols(frame) |->
        [Column |-> IsnaSum(frame)[c].index, NullCount |-> IsnaSum(frame)[c].value]]

\* A plausible slip: the percentage taken over the number of columns.
profile_nulls_by_columns(frame) ==
    [c \in 1..NumCols(frame) |->
        [Column |-> NullCountFrame(frame)[c].Column,
         NullCount |-> NullCountFrame(frame)[c].NullCount,
         NullPct |-> TrueDiv(NullCountFrame(frame)[c].NullCount, NumCols(frame))]]

\* A plausible slip: non-missing cells counted instead of missing ones.
profile_nulls_notna(frame) ==
    [c \in 1..NumCols(frame) |->
        [Column |-> frame.columns[c],
         NullCount |-> len(frame) - NullCountFrame(frame)[c].NullCount,
         NullPct |-> TrueDiv(len(frame) - NullCountFrame(frame)[c].NullCount,
                             len(frame))]]

\* A plausible slip: an empty table guarded with a zero percentage.
profile_nulls_guarded(frame) ==
    [c \in 1..NumCols(frame) |->
        [Column |-> NullCountFrame(frame)[c].Column,
         NullCount |-> NullCountFrame(frame)[c].NullCount,
         NullPct |-> IF len(frame) = 0 THEN Quotient(0, 1)
                     ELSE TrueDiv(NullCountFrame(frame)[c].NullCount, len(frame))]]

\* The report as a value: the counts with the column "Null Pct" added.
WithNullPct(counts, rows) ==
    [c \in 1..Len(counts) |->
        [Column |-> counts[c].Column,
         NullCount |-> counts[c].NullCount,
         NullPct |-> TrueDiv(counts[c].NullCount, rows)]]

profile_nulls(frame) == WithNullPct(NullCountFrame(frame), len(frame))

NoReport == <<[Column |-> "", NullCount |-> -1, NullPct |-> NaN]>>

(* Objects.  profile_nulls receives a reference to the caller's DataFrame  *)
(* and assigns a column in place (null_profile["Null Pct"] = ...), so what *)
(* the call does to the caller's table depends on which object that        *)
(* assignment reaches.  An object is [id, val]: two references are to the  *)
(* same object exactly when the ids are equal.                             *)

\* The object the parameter df refers to: the caller's table.
CallerObject(frame) == [id |-> 0, val |-> frame]

\* A plausible slip: a step of the chain made in place (inplace=True, or the
\* chain dropped and the column assigned on df), so that its result is the
\* object it was called on.
SameObject(obj, val) == [id |-> obj.id, val |-> val]

\* The result of a pandas method called without inplace=True (isna, sum,
\* to_frame, reset_index, rename): a new object.
NewObject(obj, val) == [id |-> obj.id + 1, val |-> val]

\* null_profile = df.isna().sum(axis=0).to_frame().reset_index().rename(...):
\* the object the name null_profile is bound to.
NullProfileObject(frame) ==
    LET caller   == CallerObject(frame)
        mask     == NewObject(caller,
                        [r \in 1..len(frame) |->
                            [c \in 1..NumCols(frame) |-> isna(frame.data[r][c])]])
        sums     == NewObject(mask, IsnaSum(frame))
        to_frame == NewObject(sums, IsnaSum(frame))
        reset    == NewObject(to_frame, IsnaSum(frame))
    IN  NewObject(reset, NullCountFrame(frame))

\* null_profile["Null Pct"] = null_profile["Null Count"] / len(df): the
\* column is assigned in place, on the object null_profile refers to.
SetNullPct(obj, rows) == [id |-> obj.id, val |-> WithNullPct(obj.val, rows)]

\* The caller's table after the call: what the assignment wrote, if the
\* object it wrote to is the caller's; the table as it was, otherwise.
CallerTableAfter(frame) ==
    IF SetNullPct(NullProfileObject(frame), len(frame)).id = CallerObject(frame).id
    THEN SetNullPct(NullProfileObject(frame), len(frame)).val
    ELSE frame

\* One call profile_nulls(df): the report returned, and the caller's table
\* as the call leaves it.
ProfileNulls ==
    /\ profile_calls < MaxCalls
    /\ null_profile' = profile_nulls(df)
    /\ prev_profile' = null_profile
    /\ df' = CallerTableAfter(df)
    /\ profile_calls' = profile_calls + 1
    /\ UNCHANGED loadVars

-----------------------------------------------------------------------------
(* Files *)

NoFile == [kind |-> "none"]

\* A delimited-text file: the header row and the data rows, every row holding
\* one text per header column.
CsvFile(header, rows) == [kind |-> "csv", header |-> header, rows |-> rows]

\* A columnar-binary file: the embedded schema (a sequence of [name, type]),
\* the stored rows, and the pandas metadata of the schema, which
\* DataFrame.to_parquet writes and other writers do not.
ParquetFile(schema, rows, metadata) ==
    [kind |-> "parquet", schema |-> schema, rows |-> rows, metadata |-> metadata]

\* A file written by another program: no pandas metadata.
NoMetadata == [pandas |-> FALSE, index_columns |-> {}, nullable |-> {}]

\* The pandas metadata: the columns that hold the index of the table written,
\* and the columns written from the nullable extension dtype Int64.
PandasMetadata(index_columns, nullable) ==
    [pandas |-> TRUE, index_columns |-> index_columns, nullable |-> nullable]

Range(seq) == {seq[i] : i \in DOMAIN seq}

RECURSIVE SelectIdx(_, _, _)
\* The indices i of seq, ascending from i0, whose element is in the set keep.
SelectIdx(seq, keep, i0) ==
    IF i0 > Len(seq) THEN <<>>
    ELSE IF seq[i0] \in keep
         THEN <<i0>> \o SelectIdx(seq, keep, i0 + 1)
         ELSE SelectIdx(seq, keep, i0 + 1)

-----------------------------------------------------------------------------
(* Results of load() and run(): a table, or the error raised *)

NoTable == [columns |-> <<>>, dtypes |-> <<>>, data |-> <<>>]

Ok(table) == [ok |-> TRUE, error |-> "", table |-> table]

Raise(error) == [ok |-> FALSE, error |-> error, table |-> NoTable]

NoResult == [ok |-> FALSE, error |-> "not run", table |-> NoTable]

-----------------------------------------------------------------------------
(* CSVLoader.load *)

\* The dtype= argument of read_csv.
dtypes ==
    [X |-> "Float64", Y |-> "Float64", OBJECTID |-> "Int64", ADDRESS |-> "object",
     LICSTATEPROV |-> "category", VIODESCRIPTION |-> "category",
     VIOFINE |-> "Float64", VOIDSTATUS |-> "category"]

\* list(dtypes.keys()): the keys in the order the dict literal gives them.
dtypes_keys ==
    <<"X", "Y", "OBJECTID", "ADDRESS", "LICSTATEPROV", "VIODESCRIPTION",
      "VIOFINE", "VOIDSTATUS">>

datetime_cols == <<"ISSUEDATE", "ISSUETIME">>

\* The usecols= argument of read_csv.
usecols == dtypes_keys \o datetime_cols

\* The texts read_csv takes for a missing value (no na_values= or
\* keep_default_na= argument is passed, so the defaults apply).
STR_NA_VALUES ==
    {"", "#N/A", "#N/A N/A", "#NA", "-1.#IND", "-1.#QNAN", "-NaN", "-nan",
     "1.#IND", "1.#QNAN", "<NA>", "N/A", "NA", "NULL", "NaN", "None", "n/a",
     "nan", "null"}

\* The numeric texts of the model's vocabulary and their values in tenths.
NumericTenths ==
    [t \in {"10.0", "20.0", "1.5", "7", "0"} |->
        CASE t = "10.0" -> 100
          [] t = "20.0" -> 200
          [] t = "1.5"  -> 15
          [] t = "7"    -> 70
          [] t = "0"    -> 0]

IsNumericText(text) == text \in DOMAIN NumericTenths

\* The date/time texts of the model's vocabulary that parse as a date/time.
DateTexts == {"2020-01-01", "12:30:00"}

ParseError(text) == Cell("error", 0, text)

\* A cell of a column read with dtype "Float64".
ToFloat64(text) ==
    IF text \in STR_NA_VALUES THEN Null
    ELSE IF IsNumericText(text) THEN FloatCell(NumericTenths[text])
    ELSE ParseError(text)

\* A cell of a column read with dtype "Int64": a number with a fraction
\* cannot be cast.
ToInt64(text) ==
    IF text \in STR_NA_VALUES THEN Null
    ELSE IF IsNumericText(text) /\ NumericTenths[text] % 10 = 0
         THEN IntCell(NumericTenths[text] \div 10)
    ELSE ParseError(text)

\* A cell of a column read as text (dtype str or "category").
ToText(text) == IF text \in STR_NA_VALUES THEN Null ELSE StrCell(text)

\* A cell of a parse_dates column whose values all parse.
ToDatetime(text) == IF text \in STR_NA_VALUES THEN Null ELSE DateCell(text)

\* The format pandas guesses from a date/time text: a guess needs a year, a
\* month and a day, so a bare time of day gives none.
DateFormat(text) == IF text = "2020-01-01" THEN "%Y-%m-%d" ELSE "none"

RECURSIVE FirstPresent(_)
\* The first text of the column that is not a missing-value marker ("" when
\* there is none).
FirstPresent(texts) ==
    IF texts = <<>> THEN ""
    ELSE IF Head(texts) \notin STR_NA_VALUES THEN Head(texts)
    ELSE FirstPresent(Tail(texts))

\* Whether a parse_dates column is converted: every present value must parse,
\* and, when a format is guessed from the first present value, fit that
\* format (with no guess the values are parsed one by one).  Otherwise
\* read_csv returns the column unaltered, as object.
DatesParse(texts) ==
    /\ \A i \in DOMAIN texts : texts[i] \in STR_NA_VALUES \cup DateTexts
    /\ DateFormat(FirstPresent(texts)) # "none" =>
          \A i \in DOMAIN texts :
              texts[i] \in STR_NA_VALUES
              \/ DateFormat(texts[i]) = DateFormat(FirstPresent(texts))

\* The texts of header column c of the file, top to bottom.
ColumnTexts(file, c) == [r \in 1..Len(file.rows) |-> file.rows[r][c]]

\* The dtype of the loaded column: the dtype= entry, or for a parse_dates
\* column datetime when there is data and all of it parses.
ColumnDtype(file, c) ==
    LET name == file.header[c] IN
    IF name \in DOMAIN dtypes THEN dtypes[name]
    ELSE IF Len(file.rows) > 0 /\ DatesParse(ColumnTexts(file, c))
         THEN "datetime64[ns]"
         ELSE "object"

\* A plausible slip: unparseable numbers coerced to missing values.
ConvertCellCoerce(dtype, text) ==
    CASE dtype = "Float64" ->
            IF IsNumericText(text) THEN FloatCell(NumericTenths[text]) ELSE Null
      [] dtype = "Int64" ->
            IF IsNumericText(text) /\ NumericTenths[text] % 10 = 0
            THEN IntCell(NumericTenths[text] \div 10) ELSE Null
      [] dtype = "datetime64[ns]" -> ToDatetime(text)
      [] OTHER -> ToText(text)

\* A plausible slip: missing values not filtered (na_filter=False), so an
\* empty cell goes to the numeric parser.
ConvertCellNoNaFilter(dtype, text) ==
    CASE dtype = "Float64" ->
            IF IsNumericText(text) THEN FloatCell(NumericTenths[text])
            ELSE ParseError(text)
      [] dtype = "Int64" ->
            IF IsNumericText(text) /\ NumericTenths[text] % 10 = 0
            THEN IntCell(NumericTenths[text] \div 10) ELSE ParseError(text)
      [] dtype = "datetime64[ns]" -> DateCell(text)
      [] OTHER -> StrCell(text)

ConvertCell(dtype, text) ==
    CASE dtype = "Float64" -> ToFloat64(text)
      [] dtype = "Int64" -> ToInt64(text)
      [] dtype = "datetime64[ns]" -> ToDatetime(text)
      [] OTHER -> ToText(text)

\* The columns of the header that read_csv keeps: those named by usecols, in
\* the order of the file.
KeptColumns(file) == SelectIdx(file.header, Range(usecols), 1)

\* A plausible slip: every column of the file read (no usecols=).
ReadCsvTableAllColumns(file) ==
    [columns |-> file.header,
     dtypes |-> [j \in 1..Len(file.header) |-> ColumnDtype(file, j)],
     data |-> [r \in 1..Len(file.rows) |->
                 [j \in 1..Len(file.header) |->
                     ConvertCell(ColumnDtype(file, j), file.rows[r][j])]]]

\* The table read_csv builds from the kept columns.
ReadCsvTable(file) ==
    LET keep == KeptColumns(file) IN
    [columns |-> [j \in 1..Len(keep) |-> file.header[keep[j]]],
     dtypes |-> [j \in 1..Len(keep) |-> ColumnDtype(file, keep[j])],
     data |-> [r \in 1..Len(file.rows) |->
                 [j \in 1..Len(keep) |->
                     ConvertCell(ColumnDtype(file, keep[j]), file.rows[r][keep[j]])]]]

HasParseError(table) ==
    \E r \in DOMAIN table.data : \E j \in DOMAIN table.data[r] :
        table.data[r][j].k = "error"

\* A plausible slip: the columns that are present are loaded and the absent
\* ones skipped (usecols given as a filter that tolerates absences).
read_csv_lenient(file) ==
    IF HasParseError(ReadCsvTable(file)) THEN Raise("parse error")
    ELSE Ok(ReadCsvTable(file))

\* pd.read_csv(path, parse_dates=datetime_cols, dtype=dtypes, usecols=...)
read_csv(file) ==
    IF ~(Range(usecols) \subseteq Range(file.header)) THEN Raise("schema error")
    ELSE IF HasParseError(ReadCsvTable(file)) THEN Raise("parse error")
    ELSE Ok(ReadCsvTable(file))

CSVLoader_load(file_path, files) ==
    IF files[file_path].kind = "none" THEN Raise("file not found")
    ELSE IF files[file_path].kind # "csv" THEN Raise("parse error")
    ELSE read_csv(files[file_path])

-----------------------------------------------------------------------------
(* ParquetLoader.load *)

\* The pandas dtype that holds a stored type without loss.
PandasDtype(stored) == IF stored = "int64" THEN "int64" ELSE "object"

\* The stored values of schema column c, top to bottom.
StoredColumn(file, c) == [r \in 1..Len(file.rows) |-> file.rows[r][c]]

HasNull(cells) == \E i \in DOMAIN cells : isna(cells[i])

\* The dtype of a loaded column (default dtype backend).  An integer column
\* the pandas metadata records as Int64 is restored to Int64; any other
\* int64 column holding a null comes back as float64, since a NumPy integer
\* column has no missing value.
LoadedDtype(file, c) ==
    IF file.schema[c].type = "int64" /\ file.schema[c].name \in file.metadata.nullable
    THEN "Int64"
    ELSE IF file.schema[c].type = "int64" /\ HasNull(StoredColumn(file, c))
    THEN "float64"
    ELSE PandasDtype(file.schema[c].type)

\* A loaded cell: in a float64 column the integers become floats and the
\* nulls NaN.
LoadedCell(dtype, cell) ==
    IF dtype = "float64" /\ cell.k = "int" THEN FloatCell(cell.n * 10) ELSE cell

\* The schema columns that become columns of the table, in schema order:
\* those the pandas metadata names as index columns become its index.
TableColumns(file) ==
    SelectIdx([c \in 1..Len(file.schema) |-> file.schema[c].name],
              {file.schema[c].name : c \in 1..Len(file.schema)}
                  \ file.metadata.index_columns,
              1)

\* A plausible slip: only the first column of the file read (columns=[...]).
read_parquet_first_column(file) ==
    LET keep == SubSeq(TableColumns(file), 1,
                       IF Len(TableColumns(file)) > 1 THEN 1
                       ELSE Len(TableColumns(file))) IN
    Ok([columns |-> [j \in 1..Len(keep) |-> file.schema[keep[j]].name],
        dtypes |-> [j \in 1..Len(keep) |-> LoadedDtype(file, keep[j])],
        data |-> [r \in 1..Len(file.rows) |->
                    [j \in 1..Len(keep) |->
                        LoadedCell(LoadedDtype(file, keep[j]), file.rows[r][keep[j]])]]])

\* pd.read_parquet(path, engine="pyarrow"): every column of the schema that
\* is not an index column, in the order of the schema.
read_parquet(file) ==
    LET keep == TableColumns(file) IN
    Ok([columns |-> [j \in 1..Len(keep) |-> file.schema[keep[j]].name],
        dtypes |-> [j \in 1..Len(keep) |-> LoadedDtype(file, keep[j])],
        data |-> [r \in 1..Len(file.rows) |->
                    [j \in 1..Len(keep) |->
                        LoadedCell(LoadedDtype(file, keep[j]), file.rows[r][keep[j]])]]])

ParquetLoader_load(file_path, files) ==
    IF files[file_path].kind = "none" THEN Raise("file not found")
    ELSE IF files[file_path].kind # "parquet" THEN Raise("parse error")
    ELSE read_parquet(files[file_path])

-----------------------------------------------------------------------------
(* Loader and LoadProcess *)

\* Loader.__init__: the instance keeps the path it is given.
Loader(kind, file_path) == [kind |-> kind, file_path |-> file_path]

\* loader.load(): dispatch on the concrete class.
load(loader, files) ==
    IF loader.kind = "csv" THEN CSVLoader_load(loader.file_path, files)
    ELSE ParquetLoader_load(loader.file_path, files)

LoaderIds == {"L1", "L2"}

\* A plausible slip: the first table obtained is kept and returned again.
RunCached ==
    /\ run_calls < MaxCalls
    /\ run_calls' = run_calls + 1
    /\ IF run_result.ok
       THEN /\ UNCHANGED <<load_calls, last_load>>
            /\ run_result' = run_result
       ELSE /\ load_calls' = [load_calls EXCEPT ![data_loader] = @ + 1]
            /\ last_load' = [loader |-> data_loader,
                             result |-> load(loaders[data_loader], fs)]
            /\ run_result' = last_load'.result
    /\ UNCHANGED <<fs, loaders, data_loader, profileVars>>

\* A plausible slip: a failed load is tried a second time.
RunRetry ==
    /\ run_calls < MaxCalls
    /\ run_calls' = run_calls + 1
    /\ last_load' = [loader |-> data_loader,
                     result |-> load(loaders[data_loader], fs)]
    /\ load_calls' = [load_calls EXCEPT
                        ![data_loader] = @ + (IF last_load'.result.ok THEN 1 ELSE 2)]
    /\ run_result' = last_load'.result
    /\ UNCHANGED <<fs, loaders, data_loader, profileVars>>

\* LoadProcess.run(): return self.data_loader.load().  One load() call on the
\* wrapped loader; its table, or the error it raises, is the outcome of run().
Run ==
    /\ run_calls < MaxCalls
    /\ run_calls' = run_calls + 1
    /\ load_calls' = [load_calls EXCEPT ![data_loader] = @ + 1]
    /\ last_load' = [loader |-> data_loader,
                     result |-> load(loaders[data_loader], fs)]
    /\ run_result' = last_load'.result
    /\ UNCHANGED <<fs, loaders, data_loader, profileVars>>

\* LoadProcess.__init__: a new orchestrator around loader l.
NewLoadProcess(l) ==
    /\ l # data_loader
    /\ data_loader' = l
    /\ UNCHANGED <<fs, loaders, load_calls, run_calls, run_result, last_load,
                   profileVars>>

-----------------------------------------------------------------------------
(* Inputs *)

\* The sequences of n distinct elements of S.
InjSeqs(S, n) == {q \in [1..n -> S] : \A i, j \in 1..n : q[i] = q[j] => i = j}

ColumnNames == {"A", "B", "VIOFINE"}

PresentCells == {FloatCell(100), StrCell("")}

\* The tables of m columns and n rows, any pattern of missing cells.
TablesOf(m, n) ==
    { [columns |-> cols,
       dtypes |-> [c \in 1..m |-> "object"],
       data |-> [r \in 1..n |-> [c \in 1..m |->
                    IF mask[r][c] THEN Null ELSE present]]] :
        cols \in InjSeqs(ColumnNames, m),
        mask \in [1..n -> [1..m -> BOOLEAN]],
        present \in PresentCells }

\* seq without its i-th element (seq itself when i = 0).
Without(seq, i) ==
    [j \in 1..(IF i = 0 THEN Len(seq) ELSE Len(seq) - 1) |->
        IF i = 0 \/ j < i THEN seq[j] ELSE seq[j + 1]]

Reverse(seq) == [j \in 1..Len(seq) |-> seq[Len(seq) + 1 - j]]

ExtraColumns(k) == [j \in 1..k |-> "EXTRA" \o ToString(j)]

\* Headers holding every named column: in either order, with up to MaxExtra
\* further columns in front.
FullHeaders ==
    { ExtraColumns(k) \o base :
        k \in 0..MaxExtra, base \in {usecols, Reverse(usecols)} }

\* Headers lacking one of the named columns.
LackingHeaders ==
    { ExtraColumns(k) \o Without(usecols, i) :
        k \in 0..MaxExtra, i \in 1..Len(usecols) }

\* The texts a cell of a column is drawn from.
Vocabulary(name) ==
    IF name \in {"X", "Y", "OBJECTID", "VIOFINE"}
        THEN {"", "NA", "10.0", "20.0", "1.5", "abc"}
    ELSE IF name \in Range(datetime_cols)
        THEN {"", "2020-01-01", "12:30:00", "not a date"}
    ELSE IF name \in Range(dtypes_keys) THEN {"", "ON", "NA"}
    ELSE {"zzz"}

\* A well-formed text for each column.
DefaultText(name) ==
    IF name \in {"X", "Y", "OBJECTID", "VIOFINE"} THEN "7"
    ELSE IF name = "ISSUEDATE" THEN "2020-01-01"
    ELSE IF name = "ISSUETIME" THEN "12:30:00"
    ELSE "ON"

\* The delimited-text files with header h and n rows that are well-formed
\* except in column f, whose texts range over its vocabulary.
CsvFilesOf(h, n, f) ==
    { CsvFile(h, [r \in 1..n |-> [c \in 1..Len(h) |->
                    IF c = f THEN texts[r] ELSE DefaultText(h[c])]]) :
        texts \in [1..n -> Vocabulary(h[f])] }

\* The well-formed delimited-text file with header h and n rows.
PlainCsvFile(h, n) ==
    CsvFile(h, [r \in 1..n |-> [c \in 1..Len(h) |-> DefaultText(h[c])]])

\* The stored value a choice i stands for in a column of the given type.
StoredCell(type, i) ==
    IF i = 0 THEN Null
    ELSE IF type = "int64" THEN IntCell(i)
    ELSE StrCell("x")

\* The metadata a file with the given schema can carry: none, or pandas
\* metadata naming no index column or the first column, and recording as
\* Int64 none of the integer columns or all of them.
MetadataOf(schema) ==
    {NoMetadata} \cup
    { PandasMetadata(index_columns, nullable) :
        index_columns \in {{}, {schema[c].name : c \in DOMAIN schema \cap {1}}},
        nullable \in {{}, {schema[c].name : c \in
                            {d \in DOMAIN schema : schema[d].type = "int64"}}} }

\* The columnar-binary files with the given schema and n rows, any pattern
\* of nulls, with or without pandas metadata.
ParquetFilesOf(schema, n) ==
    { ParquetFile(schema,
                  [r \in 1..n |-> [c \in 1..Len(schema) |->
                      StoredCell(schema[c].type, pick[r][c])]],
                  metadata) :
        pick \in [1..n -> [1..Len(schema) -> 0..1]],
        metadata \in MetadataOf(schema) }

\* The schemas of m columns, each of integers or of text.
SchemasOf(m) ==
    { [c \in 1..m |-> [name |-> names[c], type |-> types[c]]] :
        names \in InjSeqs(ColumnNames, m), types \in [1..m -> {"int64", "string"}] }

Paths == {"tickets.csv", "tickets.parquet"}

SampleCsv(fine) ==
    CsvFile(usecols, <<[c \in 1..Len(usecols) |->
                          IF usecols[c] = "VIOFINE" THEN fine
                          ELSE DefaultText(usecols[c])]>>)

\* The files of the orchestrator's runs: none, well-formed ones in two
\* versions, a text file lacking OBJECTID and one with an unreadable fine.
SampleFiles ==
    { NoFile,
      SampleCsv("10.0"), SampleCsv("20.0"), SampleCsv("abc"),
      CsvFile(Without(usecols, 3), <<>>),
      ParquetFile(<<[name |-> "A", type |-> "int64"]>>, <<<<IntCell(1)>>>>,
                  NoMetadata),
      ParquetFile(<<[name |-> "A", type |-> "int64"]>>, <<<<IntCell(2)>>>>,
                  PandasMetadata({}, {})) }

-----------------------------------------------------------------------------
(* Specifications *)

NoLoad == [loader |-> "", result |-> NoResult]

IdleLoad(files, insts, wrapped) ==
    /\ fs = files
    /\ loaders = insts
    /\ data_loader = wrapped
    /\ load_calls = [l \in LoaderIds |-> 0]
    /\ run_calls = 0
    /\ run_result = NoResult
    /\ last_load = NoLoad

IdleProfile(table) ==
    /\ df = table
    /\ null_profile = NoReport
    /\ prev_profile = NoReport
    /\ profile_calls = 0

\* profile_nulls called on a table, repeatedly.
InitProfile ==
    /\ \E m \in 0..MaxCols, n \in 0..MaxRows :
          \E table \in TablesOf(m, n) : IdleProfile(table)
    /\ IdleLoad([p \in Paths |-> NoFile],
                [l \in LoaderIds |-> Loader("csv", "tickets.csv")], "L1")

NextProfile == ProfileNulls

SpecProfile == InitProfile /\ [][NextProfile]_vars

\* An orchestrator around a CSVLoader, run on a delimited-text file.
InitCsv ==
    /\ \E h \in FullHeaders \cup LackingHeaders :
       \E n \in 0..MaxCsvRows, f \in 1..Len(h) :
       \E file \in (IF h \in FullHeaders THEN CsvFilesOf(h, n, f)
                    ELSE IF n <= 1 /\ f = 1 THEN {PlainCsvFile(h, n)} ELSE {}) :
          IdleLoad([p \in Paths |-> IF p = "tickets.csv" THEN file ELSE NoFile],
                   [l \in LoaderIds |-> Loader("csv", "tickets.csv")], "L1")
    /\ IdleProfile(NoTable)

NextCsv == run_calls = 0 /\ Run

SpecCsv == InitCsv /\ [][NextCsv]_vars

\* An orchestrator around a ParquetLoader, run on a columnar-binary file.
InitParquet ==
    /\ \E m \in 0..MaxCols, n \in 0..MaxPqRows :
       \E schema \in SchemasOf(m) : \E file \in ParquetFilesOf(schema, n) :
          IdleLoad([p \in Paths |-> IF p = "tickets.parquet" THEN file ELSE NoFile],
                   [l \in LoaderIds |-> Loader("parquet", "tickets.parquet")], "L2")
    /\ IdleProfile(NoTable)

NextParquet == run_calls = 0 /\ Run

SpecParquet == InitParquet /\ [][NextParquet]_vars

\* The file at path p is replaced (by another program) between two runs.
FileChanges(p, file) ==
    /\ run_calls > 0
    /\ fs[p] # file
    /\ fs' = [fs EXCEPT ![p] = file]
    /\ UNCHANGED <<loaders, data_loader, load_calls, run_calls, run_result,
                   last_load, profileVars>>

\* Two loaders, one of each kind, on any paths; an orchestrator around either;
\* runs, with the files changing in between.
Init ==
    /\ \E files \in [Paths -> SampleFiles], p1 \in Paths, p2 \in Paths,
          wrapped \in LoaderIds :
          IdleLoad(files,
                   [l \in LoaderIds |-> IF l = "L1" THEN Loader("csv", p1)
                                        ELSE Loader("parquet", p2)],
                   wrapped)
    /\ IdleProfile(NoTable)

Next ==
    \/ Run
    \/ \E l \in LoaderIds : NewLoadProcess(l)
    \/ \E p \in Paths : \E file \in SampleFiles : FileChanges(p, file)

Spec == Init /\ [][Next]_vars

-----------------------------------------------------------------------------
(* Properties of profile_nulls, under SpecProfile *)

Profiled == profile_calls > 0

\* The number of rows of the table whose cell in column c is missing.
MissingIn(table, c) == Cardinality({r \in 1..len(table) : isna(table.data[r][c])})

\* C1: the report of profile_nulls(T) has exactly one row per column of T, in
\* the order of T's columns, and each row's Null Count is an integer between
\* 0 and the number of rows of T, equal to the number of rows of T whose cell
\* in that column is missing.
C1_OneRowPerColumnWithNullCount ==
    Profiled =>
        /\ Len(null_profile) = NumCols(df)
        /\ \A c \in 1..NumCols(df) :
              /\ null_profile[c].Column = df.columns[c]
              /\ null_profile[c].NullCount \in 0..len(df)
              /\ null_profile[c].NullCount = MissingIn(df, c)

C1_Witness ==
    /\ Profiled
    /\ NumCols(df) = 2
    /\ len(df) = 3
    /\ null_profile[1].NullCount = 1
    /\ null_profile[2].NullCount = 3
    /\ null_profile[1].Column # null_profile[2].Column

\* C2: for a table with at least one row, every report row's Null Pct is
\* Null Count divided by the number of rows of the table, a fraction between
\* 0 and 1.
C2_NullPctIsCountOverRows ==
    (Profiled /\ len(df) >= 1) =>
        \A c \in 1..Len(null_profile) :
            LET row == null_profile[c] IN
            /\ row.NullPct.k = "num"
            /\ row.NullPct.den > 0
            /\ row.NullPct.num * len(df) = row.NullCount * row.NullPct.den
            /\ 0 <= row.NullPct.num
            /\ row.NullPct.num <= row.NullPct.den

\* A 3-row table whose VIOFINE column has one missing cell: 1 and 1/3.
C2_Witness ==
    /\ Profiled
    /\ len(df) = 3
    /\ \E c \in 1..Len(null_profile) :
          /\ null_profile[c].Column = "VIOFINE"
          /\ null_profile[c].NullCount = 1
          /\ null_profile[c].NullPct = [k |-> "num", num |-> 1, den |-> 3]

\* C3: on a table with zero rows and n columns profile_nulls returns n report
\* rows, each with Null Count 0 and Null Pct not-a-number: no number, and no
\* error raised.
C3_EmptyTableGivesNaN ==
    (Profiled /\ len(df) = 0) =>
        /\ Len(null_profile) = NumCols(df)
        /\ \A c \in 1..Len(null_profile) :
              /\ null_profile[c].NullCount = 0
              /\ null_profile[c].NullPct = NaN
              /\ null_profile[c].NullPct.k # "num"

C3_Witness ==
    /\ Profiled
    /\ len(df) = 0
    /\ NumCols(df) = 2
    /\ Len(null_profile) = 2
    /\ null_profile[2].NullPct = NaN

\* C4: a call of profile_nulls leaves the table it is given unchanged (the
\* column it assigns in place goes to an object of its own), and a second
\* call on the same table yields the report the first call yielded.
C4_PureAndIdempotent ==
    [][ (profile_calls' = profile_calls + 1) =>
            /\ df' = df
            /\ (Profiled => null_profile' = null_profile) ]_vars

C4_Witness ==
    /\ profile_calls = 2
    /\ NumCols(df) = 2
    /\ len(df) = 2
    /\ prev_profile = null_profile
    /\ null_profile[1].NullCount = 1

-----------------------------------------------------------------------------
(* Properties of LoadProcess.run, under Spec *)

\* A step that is a call of run().
RunStep == run_calls' = run_calls + 1

\* C5: a call of run() invokes load() exactly once, on the wrapped loader and
\* on no other, and returns the table load() returned, unchanged: the table
\* of the file as it is at that call, not one kept from an earlier run.
C5_RunDelegatesOnce ==
    [][ RunStep =>
            /\ load_calls' = [load_calls EXCEPT ![data_loader] = @ + 1]
            /\ last_load'.loader = data_loader
            /\ run_result' = last_load'.result
            /\ run_result' = load(loaders[data_loader], fs) ]_vars

\* Two runs on the same loader, both returning a table, the file having
\* changed in between.
C5_Witness ==
    /\ run_calls = 2
    /\ load_calls[data_loader] = 2
    /\ run_result.ok
    /\ run_result.table.data = <<<<IntCell(2)>>>>
    /\ loaders[data_loader].kind = "parquet"

\* C10: when the wrapped loader's load() fails, run() fails with the same
\* error and returns no table; load() is attempted exactly once; and the
\* loader's file_path and the orchestrator's data_loader are as before the
\* call.
C10_FailurePropagates ==
    [][ (RunStep /\ ~load(loaders[data_loader], fs).ok) =>
            /\ ~run_result'.ok
            /\ run_result'.error = load(loaders[data_loader], fs).error
            /\ run_result'.error \in {"file not found", "schema error", "parse error"}
            /\ run_result'.table = NoTable
            /\ load_calls'[data_loader] = load_calls[data_loader] + 1
            /\ \A l \in LoaderIds \ {data_loader} : load_calls'[l] = load_calls[l]
            /\ loaders' = loaders
            /\ data_loader' = data_loader ]_vars

\* A failed run followed by a second failed run on the same loader and path.
C10_Witness ==
    /\ run_calls = 2
    /\ load_calls[data_loader] = 2
    /\ ~run_result.ok
    /\ run_result.error = "schema error"
    /\ last_load.loader = data_loader

-----------------------------------------------------------------------------
(* Properties of CSVLoader.load, under SpecCsv *)

Loaded == run_calls > 0

\* The delimited-text file the loader reads.
TheCsv == fs["tickets.csv"]

HasRequired(file) == Range(usecols) \subseteq Range(file.header)

NumericColumns == {"X", "Y", "OBJECTID", "VIOFINE"}

\* The type the column table of the data model gives each column.
TableType(name) ==
    IF name \in {"X", "Y", "VIOFINE"} THEN "Float64"
    ELSE IF name = "OBJECTID" THEN "Int64"
    ELSE IF name = "ADDRESS" THEN "object"
    ELSE IF name \in Range(datetime_cols) THEN "datetime64[ns]"
    ELSE "category"

\* A text a column of the given name can hold in a valid file.
WellFormed(name, text) ==
    \/ text \in STR_NA_VALUES
    \/ name \in {"X", "Y", "VIOFINE"} /\ IsNumericText(text)
    \/ name = "OBJECTID" /\ IsNumericText(text) /\ NumericTenths[text] % 10 = 0
    \/ name \in Range(datetime_cols) /\ text \in DateTexts
    \/ name \notin NumericColumns \cup Range(datetime_cols)

\* A valid file: the named columns are present, every cell is well-formed and
\* each date/time column parses as a whole.
Valid(file) ==
    /\ HasRequired(file)
    /\ \A r \in 1..Len(file.rows) : \A c \in 1..Len(file.header) :
          WellFormed(file.header[c], file.rows[r][c])
    /\ \A c \in 1..Len(file.header) :
          file.header[c] \in Range(datetime_cols) => DatesParse(ColumnTexts(file, c))

DataColumns(table) == Range(table.columns) \ Range(datetime_cols)

\* C6 as stated: for every valid file the loaded table has exactly nine data
\* columns plus the date/time columns, and each column has its table type.
C6_NineDataColumns ==
    (Loaded /\ Valid(TheCsv)) =>
        /\ run_result.ok
        /\ Cardinality(DataColumns(run_result.table)) = 9
        /\ Range(datetime_cols) \subseteq Range(run_result.table.columns)
        /\ \A j \in 1..NumCols(run_result.table) :
              run_result.table.dtypes[j] = TableType(run_result.table.columns[j])

\* C6, amended: for every valid file the loaded table has exactly the eight
\* data columns X, Y, OBJECTID, ADDRESS, LICSTATEPROV, VIODESCRIPTION, VIOFINE,
\* VOIDSTATUS plus the two date/time columns ISSUEDATE and ISSUETIME, each
\* once, every other column of the file being ignored; each data column has
\* its table type, and so has each date/time column when the file has at
\* least one data row.
C6_EightDataColumns ==
    (Loaded /\ Valid(TheCsv)) =>
        /\ run_result.ok
        /\ DataColumns(run_result.table) = Range(dtypes_keys)
        /\ Cardinality(DataColumns(run_result.table)) = 8
        /\ Range(run_result.table.columns) = Range(usecols)
        /\ NumCols(run_result.table) = 10
        /\ len(run_result.table) = Len(TheCsv.rows)
        /\ \A j \in 1..NumCols(run_result.table) :
              (run_result.table.columns[j] \in Range(dtypes_keys)
                    \/ Len(TheCsv.rows) >= 1)
              => run_result.table.dtypes[j] = TableType(run_result.table.columns[j])

\* A valid file with a further column and a row, loaded.
C6_Witness ==
    /\ Loaded
    /\ Valid(TheCsv)
    /\ Len(TheCsv.header) = 11
    /\ Len(TheCsv.rows) >= 1
    /\ run_result.ok
    /\ NumCols(run_result.table) = 10

\* C7: if the header lacks any one of the named columns, load() fails with a
\* schema error and returns no table: never a table of the columns present.
C7_MissingColumnFails ==
    (Loaded /\ ~HasRequired(TheCsv)) =>
        /\ ~run_result.ok
        /\ run_result.error = "schema error"
        /\ run_result.table = NoTable

\* A file lacking OBJECTID, with a data row, refused.
C7_Witness ==
    /\ Loaded
    /\ "OBJECTID" \notin Range(TheCsv.header)
    /\ Len(TheCsv.rows) = 1
    /\ run_result.error = "schema error"

\* The loaded cell of row r in the column named name.
LoadedCellOf(table, name, r) ==
    table.data[r][CHOOSE j \in 1..NumCols(table) : table.columns[j] = name]

\* C8 as stated: in a nullable numeric column a cell that is empty or
\* non-numeric becomes a null rather than making the load fail.
C8_NonNumericBecomesNull ==
    (Loaded /\ HasRequired(TheCsv)) =>
        \A c \in 1..Len(TheCsv.header) : \A r \in 1..Len(TheCsv.rows) :
            (/\ TheCsv.header[c] \in NumericColumns
             /\ ~IsNumericText(TheCsv.rows[r][c]))
            => /\ run_result.ok
               /\ LoadedCellOf(run_result.table, TheCsv.header[c], r) = Null

\* C8, amended: in a nullable numeric column an empty cell (or one holding a
\* missing-value marker of read_csv, such as NA) becomes a null rather than
\* making the load fail, and the other cells keep their numeric values; a
\* cell holding any other non-numeric text (or, in OBJECTID, a number with a
\* fractional part) makes the load fail with a parse error.
C8_EmptyBecomesNull ==
    (Loaded /\ HasRequired(TheCsv)) =>
        /\ Valid(TheCsv) => run_result.ok
        /\ \A c \in 1..Len(TheCsv.header) : \A r \in 1..Len(TheCsv.rows) :
              LET name == TheCsv.header[c]
                  text == TheCsv.rows[r][c]
              IN  name \in NumericColumns =>
                    /\ (text \notin STR_NA_VALUES /\ ~IsNumericText(text))
                          => (~run_result.ok /\ run_result.error = "parse error")
                    /\ (name = "OBJECTID" /\ IsNumericText(text)
                            /\ NumericTenths[text] % 10 # 0)
                          => (~run_result.ok /\ run_result.error = "parse error")
                    /\ (run_result.ok /\ text \in STR_NA_VALUES)
                          => LoadedCellOf(run_result.table, name, r) = Null
                    /\ (run_result.ok /\ IsNumericText(text))
                          => /\ LoadedCellOf(run_result.table, name, r).k
                                    \in {"float", "int"}
                             /\ LoadedCellOf(run_result.table, name, r).n
                                    * (IF name = "OBJECTID" THEN 10 ELSE 1)
                                    = NumericTenths[text]

\* VIOFINE = [10.0, "", 20.0] loaded as [10.0, null, 20.0].
C8_Witness ==
    /\ Loaded
    /\ run_result.ok
    /\ len(run_result.table) = 3
    /\ LoadedCellOf(run_result.table, "VIOFINE", 1) = FloatCell(100)
    /\ LoadedCellOf(run_result.table, "VIOFINE", 2) = Null
    /\ LoadedCellOf(run_result.table, "VIOFINE", 3) = FloatCell(200)

-----------------------------------------------------------------------------
(* Properties of ParquetLoader.load, under SpecParquet *)

\* The columnar-binary file the loader reads.
TheParquet == fs["tickets.parquet"]

\* The position in the schema of the j-th column of the loaded table.
SchemaIndex(file, j) ==
    CHOOSE c \in 1..Len(file.schema) :
        file.schema[c].name = run_result.table.columns[j]

\* Whether a loaded dtype is the type the schema stores: an integer dtype
\* (int64, or the nullable Int64) for an integer column, object for text.
SameType(stored, dtype) ==
    IF stored = "int64" THEN dtype \in {"int64", "Int64"} ELSE dtype = "object"

\* C9 as stated: the loaded table has exactly the columns of the file's
\* schema, in its order and with its types: none dropped, added or retyped.
C9_SchemaUnchanged ==
    Loaded =>
        /\ run_result.ok
        /\ NumCols(run_result.table) = Len(TheParquet.schema)
        /\ \A c \in 1..Len(TheParquet.schema) :
              /\ run_result.table.columns[c] = TheParquet.schema[c].name
              /\ SameType(TheParquet.schema[c].type, run_result.table.dtypes[c])

\* C9, amended: the loaded table has exactly the columns of the file's
\* schema, in its order, except those the file's pandas metadata names as
\* index columns, which become the index of the table; a text column and an
\* integer column keep their types and the cells their values, except that an
\* integer column holding a null is loaded as a float64 column unless the
\* metadata records it as nullable (Int64).
C9_SchemaUnchangedButIndexAndNullableIntegers ==
    Loaded =>
        /\ run_result.ok
        /\ len(run_result.table) = Len(TheParquet.rows)
        /\ Range(run_result.table.columns) =
              {TheParquet.schema[c].name : c \in 1..Len(TheParquet.schema)}
                  \ TheParquet.metadata.index_columns
        /\ NumCols(run_result.table) = Cardinality(Range(run_result.table.columns))
        /\ Range(run_result.table.columns) \subseteq
              {TheParquet.schema[c].name : c \in 1..Len(TheParquet.schema)}
        /\ \A i, j \in 1..NumCols(run_result.table) :
              i < j => SchemaIndex(TheParquet, i) < SchemaIndex(TheParquet, j)
        /\ \A j \in 1..NumCols(run_result.table) :
              LET c == SchemaIndex(TheParquet, j) IN
              /\ run_result.table.columns[j] = TheParquet.schema[c].name
              /\ IF /\ TheParquet.schema[c].type = "int64"
                    /\ \E r \in 1..Len(TheParquet.rows) : isna(TheParquet.rows[r][c])
                    /\ TheParquet.schema[c].name \notin TheParquet.metadata.nullable
                 THEN run_result.table.dtypes[j] = "float64"
                 ELSE /\ SameType(TheParquet.schema[c].type,
                                  run_result.table.dtypes[j])
                      /\ \A r \in 1..Len(TheParquet.rows) :
                            run_result.table.data[r][j] = TheParquet.rows[r][c]

\* Schema {A: integer, B: text}, no nulls, loaded as A, B with those types.
C9_Witness ==
    /\ Loaded
    /\ run_result.ok
    /\ TheParquet.metadata.index_columns = {}
    /\ run_result.table.columns = <<"A", "B">>
    /\ run_result.table.dtypes = <<"int64", "object">>
    /\ len(run_result.table) = 2

=============================================================================
